---- MODULE Spec2Model ----
(***************************************************************************)
(* The notes backend (notes_backend/src/api): five request handlers over   *)
(* one SQLite table, each run on a thread-pool worker, so handlers of      *)
(* different requests interleave between their statements.                 *)
(***************************************************************************)
EXTENDS Integers, Sequences, FiniteSets, TLC

\* ---------------------------------------------------------------- bounds
\* Thread-pool workers that serve requests concurrently.
Workers == {1, 2}
\* Largest row id the table reaches.
MaxId == 2
\* Requests the server receives in one behaviour.
MaxRequests == 2

\* ------------------------------------------------------ program constants
MinLength == 1
MaxTitleLength == 200
MaxContentLength == 20000
\* datetime.utcnow() has microsecond resolution.
MicrosPerSecond == 1000000

\* ---------------------------------------------------------------- values
\* Python's None, for an omitted Optional[str] field.
None == <<>>
\* The string made of the character ch repeated n times.
Str(ch, n) == <<ch, n>>
StrLen(s) == s[2]

TitleInputs ==
    {Str("a", 0), Str("a", MinLength), Str("b", MaxTitleLength),
     Str("b", MaxTitleLength + 1)}
ContentInputs ==
    {Str("x", 0), Str("x", MinLength), Str("y", MaxContentLength),
     Str("y", MaxContentLength + 1)}
IdInputs == 1..MaxId
\* The instants datetime.utcnow() returns while the server runs, in
\* microseconds: two within one second.
ClockValues == {MicrosPerSecond, MicrosPerSecond + 1}

\* NoteBase: title and content are required, with length limits.
\* A title limit that lets one character too many through.
ValidTitleOffByOne(t) == t # None /\ StrLen(t) >= MinLength /\ StrLen(t) <= MaxTitleLength + 1
ValidTitle(t) == t # None /\ StrLen(t) >= MinLength /\ StrLen(t) <= MaxTitleLength
ValidContent(c) ==
    c # None /\ StrLen(c) >= MinLength /\ StrLen(c) <= MaxContentLength
NoteCreateValid(p) == ValidTitle(p.title) /\ ValidContent(p.content)
\* NoteUpdate: each field is optional; a supplied field has the same limits.
NoteUpdateValid(p) ==
    /\ p.title = None \/ ValidTitle(p.title)
    /\ p.content = None \/ ValidContent(p.content)

\* datetime.isoformat(): "YYYY-MM-DDTHH:MM:SS" followed by ".ffffff" only when
\* the microsecond is not 0; as text it is the pair <<seconds, microseconds>>.
IsoFormat(t) == <<t \div MicrosPerSecond, t % MicrosPerSecond>>
\* Text comparison of two isoformat strings.
TextLeq(a, b) == a[1] < b[1] \/ (a[1] = b[1] /\ a[2] <= b[2])
TextLess(a, b) == TextLeq(a, b) /\ a # b
\* SQLite's datetime(): "YYYY-MM-DD HH:MM:SS", the fraction of a second dropped.
SqlDatetime(ts) == ts[1]

VARIABLES
    notes,     \* the table: id -> [title, content, created_at, updated_at]
    clock,     \* the system clock's latest reading, in microseconds
    pc,        \* each worker's position
    req,       \* each worker's request: [op, id, title, content]
    now,       \* each worker's local `now`
    existing,  \* update_note's local `existing`: the columns it reads
    resp,      \* the response each worker sends in the step just taken
    conn,      \* whether the worker's handler holds a connection
    leaked,    \* history: some handler has ended with its connection still open
    served,    \* requests received so far
    deleted    \* history: the ids whose DELETE was answered 204

vars == <<notes, clock, pc, req, now, existing, resp, conn, leaked, served, deleted>>

Request(o, i, t, c) == [op |-> o, id |-> i, title |-> t, content |-> c]
NoRequest == Request("none", 0, None, None)

\* A response, with the request it answers.
NoResponse == [to |-> NoRequest, status |-> 0, body |-> <<>>, detail |-> ""]
\* A success response and its body: the notes it carries.
Response(q, s, b) == [to |-> q, status |-> s, body |-> b, detail |-> ""]
\* HTTPException(status_code, detail)
HTTPException(q, s, d) == [to |-> q, status |-> s, body |-> <<>>, detail |-> d]
\* The framework's answer to a payload that fails the request model.
RequestValidationError == HTTPException(NoRequest, 422, "validation error")
NoFieldsDetail == "At least one of 'title' or 'content' must be provided"
NotFoundDetail == "Note not found"
\* except sqlite3.Error: the handler's answer when a statement fails.
DatabaseError(q) == HTTPException(q, 500, "Database error")
\* An exception no handler catches: the server's 500.
InternalServerError(q) == HTTPException(q, 500, "Internal Server Error")
\* No worker sends a response in this step.
Silent == [w \in Workers |-> NoResponse]
\* Worker w sends response r in this step.
Send(w, r) == [Silent EXCEPT ![w] = r]

\* _row_to_note
RowToNote(tbl, i) ==
    [id |-> i, title |-> tbl[i].title, content |-> tbl[i].content,
     created_at |-> tbl[i].created_at, updated_at |-> tbl[i].updated_at]

\* SELECT ... WHERE id = ? followed by fetchone(): no row, or the one row.
SelectById(tbl, i) == IF i \in DOMAIN tbl THEN <<RowToNote(tbl, i)>> ELSE <<>>

\* ORDER BY datetime(updated_at) DESC, id DESC: whether row i sorts before row j.
SortsBefore(tbl, i, j) ==
    \/ SqlDatetime(tbl[i].updated_at) > SqlDatetime(tbl[j].updated_at)
    \/ /\ SqlDatetime(tbl[i].updated_at) = SqlDatetime(tbl[j].updated_at)
       /\ i > j

RECURSIVE OrderBy(_, _)
OrderBy(tbl, ids) ==
    IF ids = {} THEN <<>>
    ELSE LET first == CHOOSE i \in ids : \A j \in ids \ {i} : SortsBefore(tbl, i, j)
         IN  <<RowToNote(tbl, first)>> \o OrderBy(tbl, ids \ {first})

\* The rows list_notes returns.
SelectAll(tbl) == OrderBy(tbl, DOMAIN tbl)

Max(S) == CHOOSE m \in S : \A k \in S : k <= m

\* The rowid SQLite gives a row inserted without one into a table whose key is
\* id INTEGER PRIMARY KEY: one more than the largest rowid in the table.
NextRowid(tbl) == IF DOMAIN tbl = {} THEN 1 ELSE Max(DOMAIN tbl) + 1

\* INSERT INTO notes (title, content, created_at, updated_at) VALUES (?, ?, ?, ?)
\* An INSERT that binds the title to the content column too.
InsertRowTitleTwice(tbl, i, t, c, ts) ==
    [k \in DOMAIN tbl \cup {i} |->
        IF k = i THEN [title |-> t, content |-> t, created_at |-> ts, updated_at |-> ts]
        ELSE tbl[k]]
InsertRow(tbl, i, t, c, ts) ==
    [k \in DOMAIN tbl \cup {i} |->
        IF k = i THEN [title |-> t, content |-> c, created_at |-> ts, updated_at |-> ts]
        ELSE tbl[k]]

\* UPDATE notes SET title = ?, content = ?, updated_at = ? WHERE id = ?
UpdateRow(tbl, i, t, c, ts) ==
    [k \in DOMAIN tbl |->
        IF k = i THEN [title |-> t, content |-> c, created_at |-> tbl[k].created_at,
                       updated_at |-> ts]
        ELSE tbl[k]]

\* DELETE FROM notes WHERE id = ?
DeleteRow(tbl, i) == [k \in DOMAIN tbl \ {i} |-> tbl[k]]
\* A rowcount that is 1 whether or not a row matched.
DeleteRowcountAlwaysOne(tbl, i) == 1
\* cursor.rowcount of that DELETE
DeleteRowcount(tbl, i) == IF i \in DOMAIN tbl THEN 1 ELSE 0

\* The columns of the existing row that update_note reads.
Columns(row) == [title |-> row.title, content |-> row.content]
NoRow == [title |-> None, content |-> None]

\* A first check that lets every payload through.
NoFieldsSuppliedNever(p) == FALSE
\* update_note's first check: the payload supplies no field.
NoFieldsSupplied(p) == p.title = None /\ p.content = None
\* A merge that takes an omitted title from the row as it is at the write.
MergeTitleFromCurrentRow(p, row) ==
    IF p.title # None THEN p.title
    ELSE IF p.id \in DOMAIN notes THEN notes[p.id].title ELSE row.title
\* A merge that writes the payload's content even when it is omitted.
MergeContentFromPayload(p, row) == p.content
\* update_note's merge of the payload with the row it read.
MergeTitle(p, row) == IF p.title # None THEN p.title ELSE row.title
MergeContent(p, row) == IF p.content # None THEN p.content ELSE row.content

\* The table the server starts on is the file earlier runs left: no note, or
\* the notes of one or two earlier POSTs, the first a second before the server
\* starts and the second as it starts.
StoredRow(t, c, at) ==
    [title |-> t, content |-> c, created_at |-> IsoFormat(at), updated_at |-> IsoFormat(at)]
InitTables ==
    {<<>>,
     <<StoredRow(Str("a", MinLength), Str("x", MinLength), 0)>>,
     <<StoredRow(Str("a", MinLength), Str("x", MinLength), 0),
       StoredRow(Str("b", MaxTitleLength), Str("y", MaxContentLength), MicrosPerSecond)>>}

Init ==
    /\ notes \in InitTables
    /\ clock = MicrosPerSecond
    /\ pc = [w \in Workers |-> "idle"]
    /\ req = [w \in Workers |-> NoRequest]
    /\ now = [w \in Workers |-> IsoFormat(0)]
    /\ existing = [w \in Workers |-> NoRow]
    /\ resp = [w \in Workers |-> NoResponse]
    /\ conn = [w \in Workers |-> FALSE]
    /\ leaked = FALSE
    /\ served = 0
    /\ deleted = {}

\* The server receives one more request and hands it to an idle worker; the
\* workers are alike, so it is the first idle one.
Receive(w) ==
    /\ served < MaxRequests
    /\ pc[w] = "idle"
    /\ \A v \in Workers : v < w => pc[v] # "idle"
    /\ served' = served + 1

\* datetime.utcnow().isoformat(): the clock has moved on to t, or stands still.
UtcNow(w, t) ==
    /\ t >= clock
    /\ clock' = t
    /\ now' = [now EXCEPT ![w] = IsoFormat(t)]

\* get_connection(): a new connection, held by the handler.
Connect(w) == conn' = [conn EXCEPT ![w] = TRUE]

\* The end of `with get_connection() as conn:` and of the handler: the
\* connection's __exit__ commits or rolls back and does not close, and the
\* handler's reference goes; the connection is still open (it closes when the
\* garbage collector frees it, at some later time).
ExitWith(w) ==
    /\ conn' = [conn EXCEPT ![w] = FALSE]
    /\ leaked' = TRUE

\* The handler returns or raises: the response goes out, the locals go.
Return(w, r) ==
    /\ resp' = Send(w, r)
    /\ pc' = [pc EXCEPT ![w] = "idle"]
    /\ req' = [req EXCEPT ![w] = NoRequest]
    /\ now' = [now EXCEPT ![w] = IsoFormat(0)]
    /\ existing' = [existing EXCEPT ![w] = NoRow]

\* A request turned down before the handler opens a connection.
Reject(w, r) ==
    /\ resp' = Send(w, r)
    /\ UNCHANGED <<notes, clock, pc, req, now, existing, conn, leaked, deleted>>

\* GET /notes, list_notes: the connection, the SELECT, the return.
ListNotes(w) ==
    /\ Receive(w)
    /\ LET q == Request("list", 0, None, None)
       IN  \/ Return(w, Response(q, 200, SelectAll(notes)))
           \/ Return(w, DatabaseError(q))
    /\ ExitWith(w)
    /\ UNCHANGED <<notes, clock, deleted>>

\* POST /notes: the payload's validation, then create_note up to its connection.
PostRequest(w, t, c) ==
    /\ Receive(w)
    /\ IF ~NoteCreateValid(Request("create", 0, t, c))
       THEN Reject(w, RequestValidationError)
       ELSE /\ NextRowid(notes) + Cardinality({v \in Workers : pc[v] = "create"})
                 <= MaxId
            /\ Connect(w)
            /\ pc' = [pc EXCEPT ![w] = "create"]
            /\ req' = [req EXCEPT ![w] = Request("create", 0, t, c)]
            /\ \E at \in ClockValues : UtcNow(w, at)
            /\ resp' = Silent
            /\ UNCHANGED <<notes, existing, leaked, deleted>>

\* create_note: the INSERT, the SELECT of the new row, the commit, the return.
CreateNote(w) ==
    /\ pc[w] = "create"
    /\ LET note_id == NextRowid(notes)
           tbl == InsertRow(notes, note_id, req[w].title, req[w].content, now[w])
       IN  \/ /\ notes' = tbl
              /\ Return(w, Response(req[w], 201, SelectById(tbl, note_id)))
           \/ /\ Return(w, DatabaseError(req[w]))
              /\ UNCHANGED notes
    /\ ExitWith(w)
    /\ UNCHANGED <<clock, served, deleted>>

\* GET /notes/{id}, get_note: the connection, the SELECT, then 404 or the note.
GetNote(w, i) ==
    /\ Receive(w)
    /\ LET q == Request("get", i, None, None)
           row == SelectById(notes, i)
       IN  \/ IF row = <<>>
              THEN Return(w, HTTPException(q, 404, NotFoundDetail))
              ELSE Return(w, Response(q, 200, row))
           \/ Return(w, DatabaseError(q))
    /\ ExitWith(w)
    /\ UNCHANGED <<notes, clock, deleted>>

\* PUT /notes/{id}: the payload's validation, update_note's check that a field
\* is supplied, then `now` and the connection.
PutRequest(w, i, t, c) ==
    /\ Receive(w)
    /\ IF ~NoteUpdateValid(Request("update", i, t, c))
       THEN Reject(w, RequestValidationError)
       ELSE IF NoFieldsSupplied(Request("update", i, t, c))
       THEN Reject(w, HTTPException(Request("update", i, t, c), 422, NoFieldsDetail))
       ELSE /\ Connect(w)
            /\ pc' = [pc EXCEPT ![w] = "update_read"]
            /\ req' = [req EXCEPT ![w] = Request("update", i, t, c)]
            /\ \E at \in ClockValues : UtcNow(w, at)
            /\ resp' = Silent
            /\ UNCHANGED <<notes, existing, leaked, deleted>>

\* update_note: the SELECT of the existing row, then 404 or on to the write.
UpdateRead(w) ==
    /\ pc[w] = "update_read"
    /\ \/ LET row == SelectById(notes, req[w].id)
          IN  IF row = <<>>
              THEN /\ Return(w, HTTPException(req[w], 404, NotFoundDetail))
                   /\ ExitWith(w)
              ELSE /\ existing' = [existing EXCEPT ![w] = Columns(row[1])]
                   /\ pc' = [pc EXCEPT ![w] = "update_write"]
                   /\ resp' = Silent
                   /\ UNCHANGED <<req, now, conn, leaked>>
       \/ /\ Return(w, DatabaseError(req[w]))
          /\ ExitWith(w)
    /\ UNCHANGED <<notes, clock, served, deleted>>

\* update_note: the merge, the UPDATE, the SELECT of the row, the commit, the
\* return.  When the row is gone the UPDATE changes nothing, the SELECT yields
\* None and _row_to_note(None) raises TypeError, which no handler catches.
UpdateWrite(w) ==
    /\ pc[w] = "update_write"
    /\ LET new_title == MergeTitle(req[w], existing[w])
           new_content == MergeContent(req[w], existing[w])
           tbl == UpdateRow(notes, req[w].id, new_title, new_content, now[w])
           row == SelectById(tbl, req[w].id)
       IN  \/ IF row = <<>>
              THEN /\ Return(w, InternalServerError(req[w]))
                   /\ UNCHANGED notes
              ELSE /\ notes' = tbl
                   /\ Return(w, Response(req[w], 200, row))
           \/ /\ Return(w, DatabaseError(req[w]))
              /\ UNCHANGED notes
    /\ ExitWith(w)
    /\ UNCHANGED <<clock, served, deleted>>

\* DELETE /notes/{id}, delete_note: the connection, the DELETE, then 404 when
\* no row went, or the commit and 204.
DeleteNote(w, i) ==
    /\ Receive(w)
    /\ LET q == Request("delete", i, None, None)
       IN  \/ IF DeleteRowcount(notes, i) = 0
              THEN /\ Return(w, HTTPException(q, 404, NotFoundDetail))
                   /\ UNCHANGED <<notes, deleted>>
              ELSE /\ notes' = DeleteRow(notes, i)
                   /\ deleted' = deleted \cup {i}
                   /\ Return(w, Response(q, 204, <<>>))
           \/ /\ Return(w, DatabaseError(q))
              /\ UNCHANGED <<notes, deleted>>
    /\ ExitWith(w)
    /\ UNCHANGED clock

Next ==
    \/ \E w \in Workers : ListNotes(w)
    \/ \E w \in Workers, t \in TitleInputs \cup {None}, c \in ContentInputs \cup {None} :
          PostRequest(w, t, c)
    \/ \E w \in Workers : CreateNote(w)
    \/ \E w \in Workers, i \in IdInputs : GetNote(w, i)
    \/ \E w \in Workers, i \in IdInputs, t \in TitleInputs \cup {None},
          c \in ContentInputs \cup {None} : PutRequest(w, i, t, c)
    \/ \E w \in Workers : UpdateRead(w)
    \/ \E w \in Workers : UpdateWrite(w)
    \/ \E w \in Workers, i \in IdInputs : DeleteNote(w, i)

Spec == Init /\ [][Next]_vars

\* ---------------------------------------------------------------- claims
\* The worker that answers in the step, and what it answers.
Answers(w, o, st) == resp'[w].to.op = o /\ resp'[w].status = st
\* The ids of the notes in a list.
IdsOf(l) == {l[k].id : k \in 1..Len(l)}

\* C1 as stated: once DELETE of id n has been answered 204, get(n) finds no row
\* and n is in no list, whatever create, update and delete do later (no id is
\* given out twice).
C1_DeletedIdNeverReturns ==
    \A n \in deleted : SelectById(notes, n) = <<>> /\ n \notin IdsOf(SelectAll(notes))

\* C2 as stated: every stored note has updated_at >= created_at.
C2_UpdatedNotBeforeCreated ==
    \A i \in DOMAIN notes : TextLeq(notes[i].created_at, notes[i].updated_at)

\* Whether a list is in the order C3 states: of two notes the one with the
\* later updated_at comes first, and of two with the same updated_at the one
\* with the larger id.
C3Ordered(l) ==
    \A j, k \in 1..Len(l) : j < k =>
        IF l[j].updated_at = l[k].updated_at
        THEN l[j].id > l[k].id
        ELSE TextLess(l[k].updated_at, l[j].updated_at)

\* C3 as stated: what list returns holds every stored note, in that order.
C3_ListOrder ==
    \A w \in Workers : (resp[w].to.op = "list" /\ resp[w].status = 200) =>
        /\ IdsOf(resp[w].body) = DOMAIN notes
        /\ C3Ordered(resp[w].body)

\* C4 as stated: no connection an operation opened is open once the operation
\* has ended.
C4_HandleReleased == ~leaked

\* C5: an update that writes the row as it read it (no write came between)
\* and answers 200 keeps each field its payload omits, stores each field it
\* supplies, leaves id and created_at, sets updated_at to its own timestamp,
\* and changes no other note.
C5_PartialUpdateFrame ==
    [][\A w \in Workers :
        (/\ pc[w] = "update_write"
         /\ Answers(w, "update", 200)
         /\ req[w].id \in DOMAIN notes
         /\ Columns(notes[req[w].id]) = existing[w]) =>
            LET i == req[w].id
            IN  /\ DOMAIN notes' = DOMAIN notes
                /\ req[w].title = None => notes'[i].title = notes[i].title
                /\ req[w].content = None => notes'[i].content = notes[i].content
                /\ req[w].title # None => notes'[i].title = req[w].title
                /\ req[w].content # None => notes'[i].content = req[w].content
                /\ notes'[i].created_at = notes[i].created_at
                /\ notes'[i].updated_at = now[w]
                /\ resp'[w].body = SelectById(notes', i)
                /\ \A k \in DOMAIN notes \ {i} : notes'[k] = notes[k]]_vars

\* C5 witness: an update that supplied only a title has been answered 200 with
\* the title it gave and the content the note had.
C5_Witness ==
    \E w \in Workers :
        /\ resp[w].to.op = "update" /\ resp[w].status = 200
        /\ resp[w].to.content = None
        /\ resp[w].to.title = Str("b", MaxTitleLength)
        /\ resp[w].body[1].title = Str("b", MaxTitleLength)
        /\ resp[w].body[1].content = Str("x", MinLength)
        /\ resp[w].body[1].updated_at # resp[w].body[1].created_at

\* C6: create answers with the title and content it was given and
\* created_at = updated_at, under an id by which the row is then fetched; get
\* answers with the stored row of the id asked for; and a stored row changes
\* only by an update or a delete of its id.
C6_CreateGetRoundTrip ==
    [][/\ \A w \in Workers : Answers(w, "create", 201) =>
            LET n == resp'[w].body[1]
            IN  /\ n.title = resp'[w].to.title
                /\ n.content = resp'[w].to.content
                /\ n.created_at = n.updated_at
                /\ SelectById(notes', n.id) = <<n>>
       /\ \A w \in Workers : Answers(w, "get", 200) =>
            /\ resp'[w].body = SelectById(notes, resp'[w].to.id)
            /\ resp'[w].body[1].id = resp'[w].to.id
       /\ \A i \in DOMAIN notes : (i \notin DOMAIN notes' \/ notes'[i] # notes[i]) =>
            \E w \in Workers :
                /\ resp'[w].to.id = i
                /\ Answers(w, "update", 200) \/ Answers(w, "delete", 204)]_vars

\* C6 witness: a get has been answered with a note created in this run (its
\* created_at is not the stored notes') and never updated.
C6_Witness ==
    \E w \in Workers :
        /\ resp[w].to.op = "get" /\ resp[w].status = 200
        /\ resp[w].body[1].created_at = IsoFormat(MicrosPerSecond + 1)
        /\ resp[w].body[1].updated_at = IsoFormat(MicrosPerSecond + 1)
        /\ resp[w].body[1].title = Str("b", MaxTitleLength)

\* C7: an update whose payload has neither field is answered 422 whatever the
\* id, by a step that opens no connection and changes no note, and no such
\* update gets past the check.
C7_EmptyUpdateRejected ==
    [][\A w \in Workers :
        /\ (/\ resp'[w].to.op = "update"
            /\ resp'[w].to.title = None
            /\ resp'[w].to.content = None) =>
              /\ resp'[w].status = 422
              /\ resp'[w].detail = NoFieldsDetail
              /\ notes' = notes
              /\ conn' = conn
              /\ leaked' = leaked
              /\ pc' = pc
        /\ pc'[w] \in {"update_read", "update_write"} =>
              req'[w].title # None \/ req'[w].content # None]_vars

\* C7 witness: an update with neither field, for an id that no note has, has
\* been answered 422.
C7_Witness ==
    \E w \in Workers :
        /\ resp[w].to.op = "update"
        /\ resp[w].to.title = None /\ resp[w].to.content = None
        /\ resp[w].to.id \notin DOMAIN notes
        /\ resp[w].status = 422

\* C8: get, delete, and update with a field, for an id that is not in the
\* table when the handler looks it up, are answered 404 "Note not found"
\* unless the statement itself fails, and the step changes no note; 404 is not
\* the validation error and is the answer to nothing else.
C8_NotFound ==
    [][\A w \in Workers :
        /\ (/\ resp'[w].to.op \in {"get", "delete"}
            /\ resp'[w].to.id \notin DOMAIN notes
            /\ resp'[w] # DatabaseError(resp'[w].to)) =>
              /\ resp'[w].status = 404
              /\ notes' = notes
        /\ (/\ pc[w] = "update_read"
            /\ req[w].id \notin DOMAIN notes
            /\ pc'[w] # pc[w]
            /\ resp'[w] # DatabaseError(req[w])) =>
              /\ resp'[w].status = 404
              /\ resp'[w].to = req[w]
              /\ notes' = notes
        /\ resp'[w].status = 404 =>
              /\ resp'[w].detail = NotFoundDetail
              /\ resp'[w].detail # NoFieldsDetail
              /\ resp'[w] # RequestValidationError
              /\ resp'[w].to.op \in {"get", "update", "delete"}
              /\ resp'[w].to.id \notin DOMAIN notes
              /\ notes' = notes]_vars

\* C8 witness: an update that supplies a field, for an id no note has, has been
\* answered 404.
C8_Witness ==
    \E w \in Workers :
        /\ resp[w].to.op = "update" /\ resp[w].status = 404
        /\ resp[w].to.title # None
        /\ resp[w].to.id \notin DOMAIN notes

\* Whether a stored string has between lo and hi characters.
LengthWithin(s, lo, hi) == s # None /\ StrLen(s) >= lo /\ StrLen(s) <= hi

\* C9: after every step each stored note has a title of 1 to 200 characters
\* and a content of 1 to 20000, and a request turned down for its payload
\* changes no note.
C9_StoredLengths ==
    [][/\ \A i \in DOMAIN notes' :
            /\ LengthWithin(notes'[i].title, 1, 200)
            /\ LengthWithin(notes'[i].content, 1, 20000)
       /\ \A w \in Workers : resp'[w] = RequestValidationError => notes' = notes]_vars

\* C9 witness: a create with a 200-character title has been answered 201.
C9_Witness ==
    \E w \in Workers :
        /\ resp[w].to.op = "create" /\ resp[w].status = 201
        /\ StrLen(resp[w].body[1].title) = 200
        /\ resp[w].body[1].id \in DOMAIN notes

\* C10: an update's write stores, for a field its payload omits, the value the
\* update read earlier, whatever the row holds by then, and still answers 200:
\* a change another update made to that field in between is lost.
C10_WriteUsesSnapshot ==
    [][\A w \in Workers :
        (/\ pc[w] = "update_write"
         /\ req[w].id \in DOMAIN notes
         /\ pc'[w] = "idle"
         /\ resp'[w].detail = "") =>
            /\ resp'[w].status = 200
            /\ req[w].title = None => notes'[req[w].id].title = existing[w].title
            /\ req[w].content = None => notes'[req[w].id].content = existing[w].content]_vars

\* C10 witness: an update of the title alone has just been answered 200 while
\* an update of the content alone, of the same note, stands between its read
\* and its write holding the title it read before.
C10_Witness ==
    \E w1, w2 \in Workers :
        /\ resp[w1].to.op = "update" /\ resp[w1].status = 200
        /\ resp[w1].to.content = None
        /\ pc[w2] = "update_write"
        /\ req[w2].id = resp[w1].to.id
        /\ req[w2].title = None
        /\ req[w2].id \in DOMAIN notes
        /\ notes[req[w2].id].title = resp[w1].to.title
        /\ existing[w2].title # notes[req[w2].id].title

====
